---- MODULE Spec2Model ----
(***************************************************************************)
(* Model of containerfile-updater (src/main.go): a run parses a build     *)
(* file, extracts its FROM commands, resolves one digest per command and  *)
(* rewrites the image reference on the command's line.                    *)
(*                                                                         *)
(* Strings are sequences of one-character strings, so that Contains,      *)
(* Split, LastIndex, Replace and the registry regular expression are       *)
(* computed character by character as the Go code computes them.          *)
(***************************************************************************)
EXTENDS Integers, Sequences, FiniteSets, TLC

\* ------------------------------------------------------------------ bounds
\* longest free-form reference text drawn for parseImageReference
MaxLen == 4
\* most physical lines of an input build file
MaxLines == 3
\* most lines of an input file for which failures of the environment (file
\* open, backup copy, write, deadline of the resolution) are explored too
MaxFaultLines == 2

\* --------------------------------------------------------- string helpers
Empty == << >>

\* the part of [0-9], [a-z] and [A-Z] that the texts of this model use
Digits == {"0", "1", "2", "5", "6"}
LowerLetters == {"a", "b", "c", "d", "e", "f", "g", "h", "i", "k", "l", "m", "n",
                 "o", "p", "r", "s", "t", "u", "x", "y"}
UpperLetters == {"A", "B", "C", "F", "H", "M", "N", "O", "R", "S", "T", "U"}

\* strings.ToLower on one character
LowerChar(c) ==
  CASE c = "A" -> "a" [] c = "B" -> "b" [] c = "C" -> "c" [] c = "F" -> "f"
    [] c = "H" -> "h" [] c = "M" -> "m" [] c = "N" -> "n" [] c = "O" -> "o"
    [] c = "R" -> "r" [] c = "S" -> "s" [] c = "T" -> "t" [] c = "U" -> "u"
    [] OTHER -> c

\* strings.ToLower
ToLower(s) == [i \in 1..Len(s) |-> LowerChar(s[i])]

\* does sub stand in s at position i (1-based)
MatchAt(s, sub, i) ==
  /\ i >= 1
  /\ i + Len(sub) - 1 <= Len(s)
  /\ \A k \in 1..Len(sub) : s[i + k - 1] = sub[k]

\* strings.Index, 1-based; 0 when sub does not occur
Index(s, sub) ==
  LET hits == {i \in 1..(Len(s) + 1) : MatchAt(s, sub, i)}
  IN IF hits = {} THEN 0 ELSE CHOOSE i \in hits : \A j \in hits : i <= j

\* strings.LastIndex, 1-based; 0 when sub does not occur
LastIndex(s, sub) ==
  LET hits == {i \in 1..(Len(s) + 1) : MatchAt(s, sub, i)}
  IN IF hits = {} THEN 0 ELSE CHOOSE i \in hits : \A j \in hits : i >= j

\* strings.Contains
Contains(s, sub) == Index(s, sub) # 0

\* s[from..to] as Go's s[from-1:to]
Slice(s, from, to) == SubSeq(s, from, to)

\* number of occurrences of the one-character string c in s
CountChar(s, c) == Cardinality({i \in 1..Len(s) : s[i] = c})

\* strings.Replace(s, old, new, 1): the first occurrence only
ReplaceFirst(s, old, new) ==
  LET i == Index(s, old)
  IN IF i = 0 THEN s
     ELSE Slice(s, 1, i - 1) \o new \o Slice(s, i + Len(old), Len(s))

\* ------------------------------------------------------ program constants
DockerIo == <<"d", "o", "c", "k", "e", "r", ".", "i", "o">>
Latest == <<"l", "a", "t", "e", "s", "t">>
LibraryPrefix == <<"l", "i", "b", "r", "a", "r", "y", "/">>
Localhost == <<"l", "o", "c", "a", "l", "h", "o", "s", "t">>
AtSha256 == <<"@", "s", "h", "a", "2", "5", "6", ":">>
Sha256 == <<"s", "h", "a", "2", "5", "6", ":">>
Scratch == <<"s", "c", "r", "a", "t", "c", "h">>
KwFrom == <<"f", "r", "o", "m">>
KwAs == <<"a", "s">>

\* ---------------------------------------------------- parseImageReference
\* the character class [a-zA-Z0-9.-] of the registry regular expression
HostClass == LowerLetters \cup UpperLetters \cup Digits \cup {".", "-"}

\* the expression without the optional :port group
RegistrySlash_NoPort(s) ==
  LET nonHost == {i \in 1..Len(s) : s[i] \notin HostClass}
      k == IF nonHost = {} THEN 0 ELSE CHOOSE i \in nonHost : \A j \in nonHost : i <= j
  IN IF k > 1 /\ s[k] = "/" /\ k < Len(s) THEN k ELSE 0

\* position of the slash that ends group 1 of
\* ^([a-zA-Z0-9.-]+(?::[0-9]+)?)/(.+) in s, or 0 when s does not match.
\* The class holds neither ":" nor "/", so the host run, the optional
\* :port and the slash are determined by s.
RegistrySlash(s) ==
  LET nonHost == {i \in 1..Len(s) : s[i] \notin HostClass}
      k == IF nonHost = {} THEN 0 ELSE CHOOSE i \in nonHost : \A j \in nonHost : i <= j
      nonDigit == {i \in (k + 1)..Len(s) : s[i] \notin Digits}
      j == IF nonDigit = {} THEN 0 ELSE CHOOSE i \in nonDigit : \A m \in nonDigit : i <= m
      slash == IF k <= 1 THEN 0
               ELSE IF s[k] = "/" THEN k
               ELSE IF s[k] = ":" /\ j > k + 1 /\ s[j] = "/" THEN j
               ELSE 0
  IN IF slash # 0 /\ slash < Len(s) THEN slash ELSE 0

\* repository and tag split at the last colon, tag "latest" without one
SplitTag(s) ==
  LET colonIndex == LastIndex(s, <<":">>)
  IN IF colonIndex # 0
     THEN [repository |-> Slice(s, 1, colonIndex - 1), tag |-> Slice(s, colonIndex + 1, Len(s))]
     ELSE [repository |-> s, tag |-> Latest]

\* the prefix left out
AddLibrary_Never(repository) == repository

\* library/ prefix for single component names
AddLibrary(repository) ==
  IF ~Contains(repository, <<"/">>) THEN LibraryPrefix \o repository ELSE repository

\* the heuristic without the localhost case
IsRegistryHost_NoLocalhost(potentialRegistry) ==
  \/ Contains(potentialRegistry, <<".">>)
  \/ Contains(potentialRegistry, <<":">>)

\* the registry heuristic on group 1
IsRegistryHost(potentialRegistry) ==
  \/ Contains(potentialRegistry, <<".">>)
  \/ Contains(potentialRegistry, <<":">>)
  \/ potentialRegistry = Localhost

ImageReference(registry, repository, tag, digest, original) ==
  [err |-> FALSE, Registry |-> registry, Repository |-> repository, Tag |-> tag,
   Digest |-> digest, Original |-> original]

ParseError(original) ==
  [err |-> TRUE, Registry |-> Empty, Repository |-> Empty, Tag |-> Empty,
   Digest |-> Empty, Original |-> original]

\* the part of parseImageReference after the digest branch
ParseTagged(imageRef) ==
  LET slash == RegistrySlash(imageRef)
      potentialRegistry == Slice(imageRef, 1, slash - 1)
      remainder == Slice(imageRef, slash + 1, Len(imageRef))
  IN IF slash # 0 /\ IsRegistryHost(potentialRegistry)
     THEN LET rt == SplitTag(remainder)
          IN ImageReference(potentialRegistry, rt.repository, rt.tag, Empty, imageRef)
     ELSE LET rt == SplitTag(imageRef)
          IN ImageReference(DockerIo, AddLibrary(rt.repository), rt.tag, Empty, imageRef)

\* the digest branch keeping the tag-like part after the last colon only
ParseImageReference_HexOnly(imageRef) ==
  IF Contains(imageRef, AtSha256)
  THEN IF CountChar(imageRef, "@") # 1
       THEN ParseError(imageRef)
       ELSE LET at == Index(imageRef, <<"@">>)
                parsed == ParseTagged(Slice(imageRef, 1, at - 1))
            IN [parsed EXCEPT !.Digest = Slice(imageRef, LastIndex(imageRef, <<":">>) + 1, Len(imageRef)),
                              !.Original = imageRef]
  ELSE ParseTagged(imageRef)

RECURSIVE ParseImageReference(_)
ParseImageReference(imageRef) ==
  IF Contains(imageRef, AtSha256)
  THEN IF CountChar(imageRef, "@") # 1
       THEN ParseError(imageRef)
       ELSE LET at == Index(imageRef, <<"@">>)
                baseRef == Slice(imageRef, 1, at - 1)
                digest == Slice(imageRef, at + 1, Len(imageRef))
                parsed == ParseImageReference(baseRef)
            IN IF parsed.err THEN ParseError(imageRef)
               ELSE [parsed EXCEPT !.Digest = digest, !.Original = imageRef]
  ELSE ParseTagged(imageRef)

\* ------------------------------------------------- the structural parser
\* The BuildKit parser behind parseContainerfile, as far as this program
\* reads its result: one node per instruction with the instruction word,
\* the flags, the whitespace-delimited arguments (the Next chain) and the
\* line span; comment and blank lines give no node; a line ending in a
\* backslash continues on the next line.
Backslash == "\\"

\* start positions of the whitespace-delimited words of s
WordStarts(s) == {i \in 1..Len(s) : s[i] # " " /\ (i = 1 \/ s[i - 1] = " ")}

\* the word of s that starts at position i
WordAt(s, i) ==
  LET ends == {j \in i..Len(s) : j = Len(s) \/ s[j + 1] = " "}
  IN Slice(s, i, CHOOSE j \in ends : \A m \in ends : j <= m)

\* the elements of a set of numbers in increasing order
RECURSIVE SortedSeq(_)
SortedSeq(S) ==
  IF S = {} THEN << >>
  ELSE LET m == CHOOSE x \in S : \A y \in S : x <= y
       IN <<m>> \o SortedSeq(S \ {m})

\* the words of s in order
Words(s) ==
  LET starts == SortedSeq(WordStarts(s))
  IN [k \in 1..Len(starts) |-> WordAt(s, starts[k])]

IsBlank(line) == WordStarts(line) = {}
IsComment(line) == ~IsBlank(line) /\ line[CHOOSE i \in WordStarts(line) : \A j \in WordStarts(line) : i <= j] = "#"
Continues(line) == Len(line) > 0 /\ line[Len(line)] = Backslash
StripContinuation(line) == IF Continues(line) THEN Slice(line, 1, Len(line) - 1) ELSE line

IsFlag(word) == Len(word) >= 2 /\ word[1] = "-" /\ word[2] = "-"

\* number of leading flag words of a word sequence
RECURSIVE FlagCount(_)
FlagCount(words) ==
  IF Len(words) > 0 /\ IsFlag(words[1]) THEN 1 + FlagCount(Tail(words)) ELSE 0

\* the node of one logical line that spans the lines startLine..endLine
NodeOf(text, startLine, endLine) ==
  LET words == Words(text)
      rest == Tail(words)
      nflags == FlagCount(rest)
  IN [Value |-> words[1],
      Flags |-> SubSeq(rest, 1, nflags),
      Args |-> SubSeq(rest, nflags + 1, Len(rest)),
      StartLine |-> startLine,
      EndLine |-> endLine]

\* last line of the instruction that starts on line i: continuation lines
\* are joined, comment and blank lines among them are passed over
RECURSIVE InstructionEnd(_, _, _)
InstructionEnd(lines, i, open) ==
  IF ~open \/ i = Len(lines) THEN i
  ELSE LET next == lines[i + 1]
       IN IF IsComment(next) \/ IsBlank(next) THEN InstructionEnd(lines, i + 1, TRUE)
          ELSE InstructionEnd(lines, i + 1, Continues(next))

\* text of the instruction on the lines start..to from line i on:
\* continuation marks removed, comment and blank lines after the first left out
RECURSIVE InstructionText(_, _, _, _)
InstructionText(lines, start, i, to) ==
  IF i > to THEN << >>
  ELSE (IF i # start /\ (IsComment(lines[i]) \/ IsBlank(lines[i])) THEN << >>
        ELSE StripContinuation(lines[i]))
       \o InstructionText(lines, start, i + 1, to)

\* the children of the root node for the lines from line i on
RECURSIVE ParseFrom(_, _)
ParseFrom(lines, i) ==
  IF i > Len(lines) THEN << >>
  ELSE IF IsComment(lines[i]) \/ IsBlank(lines[i])
       THEN ParseFrom(lines, i + 1)
       ELSE LET end == InstructionEnd(lines, i, Continues(lines[i]))
                text == InstructionText(lines, i, i, end)
            IN (IF IsBlank(text) THEN << >> ELSE <<NodeOf(text, i, end)>>)
               \o ParseFrom(lines, end + 1)

\* a file without instructions parsed to an empty tree
ParseContainerfile_NoError(lines) ==
  [err |-> FALSE, Children |-> ParseFrom(lines, 1)]

\* parser.Parse: the children, or the error "file with no instructions"
ParseContainerfile(lines) ==
  LET children == ParseFrom(lines, 1)
  IN [err |-> children = << >>, Children |-> children]

\* ------------------------------------------------------------- extraction
IsFrom(node) == ToLower(node.Value) = KwFrom

\* index of the first "as" word after the first argument, 0 if none
AsIndex(args) ==
  LET hits == {j \in 2..Len(args) : ToLower(args[j]) = KwAs}
  IN IF hits = {} THEN 0 ELSE CHOOSE j \in hits : \A m \in hits : j <= m

\* collectBuildStageAlias: the aliases the node adds to du.buildStages
CollectBuildStageAlias(node) ==
  LET j == AsIndex(node.Args)
  IN IF Len(node.Args) = 0 \/ j = 0 \/ j = Len(node.Args) THEN {}
     ELSE {ToLower(node.Args[j + 1])}

\* first pass of extractFromCommands
CollectStages(children, stages) ==
  stages \cup UNION {CollectBuildStageAlias(children[i]) :
                       i \in {k \in 1..Len(children) : IsFrom(children[k])}}

StageReference(imageStr) ==
  [err |-> FALSE, isStageRef |-> TRUE,
   image |-> ImageReference(Empty, Empty, Empty, Empty, imageStr)]

FromError == [err |-> TRUE, isStageRef |-> FALSE, image |-> ParseError(Empty)]

\* the stage lookup without case folding
ParseFromCommand_CaseSensitive(node, stages) ==
  IF Len(node.Args) = 0 THEN FromError
  ELSE LET imageStr == node.Args[1]
       IN IF imageStr \in stages THEN StageReference(imageStr)
          ELSE IF ToLower(imageStr) = Scratch THEN StageReference(imageStr)
          ELSE LET imageRef == ParseImageReference(imageStr)
               IN IF imageRef.err THEN FromError
                  ELSE [err |-> FALSE, isStageRef |-> FALSE, image |-> imageRef]

\* scratch recognised in lower case only
ParseFromCommand_ScratchExact(node, stages) ==
  IF Len(node.Args) = 0 THEN FromError
  ELSE LET imageStr == node.Args[1]
       IN IF imageStr = Empty THEN FromError
          ELSE IF ToLower(imageStr) \in stages THEN StageReference(imageStr)
          ELSE IF imageStr = Scratch THEN StageReference(imageStr)
          ELSE LET imageRef == ParseImageReference(imageStr)
               IN IF imageRef.err THEN FromError
                  ELSE [err |-> FALSE, isStageRef |-> FALSE, image |-> imageRef]

\* parseFromCommand
ParseFromCommand(node, stages) ==
  IF Len(node.Args) = 0 THEN FromError
  ELSE LET imageStr == node.Args[1]
       IN IF imageStr = Empty THEN FromError
          ELSE IF ToLower(imageStr) \in stages THEN StageReference(imageStr)
          ELSE IF ToLower(imageStr) = Scratch THEN StageReference(imageStr)
          ELSE LET imageRef == ParseImageReference(imageStr)
               IN IF imageRef.err THEN FromError
                  ELSE [err |-> FALSE, isStageRef |-> FALSE, image |-> imageRef]

\* second pass of extractFromCommands, for the children from child i on
RECURSIVE ClassifyFrom(_, _, _)
ClassifyFrom(children, stages, i) ==
  IF i > Len(children) THEN << >>
  ELSE LET child == children[i]
           r == ParseFromCommand(child, stages)
       IN (IF IsFrom(child) /\ ~r.err /\ ~r.isStageRef
           THEN <<[Node |-> i, Image |-> r.image,
                   LineStart |-> child.StartLine, LineEnd |-> child.EndLine]>>
           ELSE << >>)
          \o ClassifyFrom(children, stages, i + 1)

\* one pass only: child i classified with the aliases of the children 1..i
RECURSIVE ClassifyInterleaved(_, _)
ClassifyInterleaved(children, i) ==
  IF i > Len(children) THEN << >>
  ELSE LET child == children[i]
           r == ParseFromCommand(child, CollectStages(SubSeq(children, 1, i), {}))
       IN (IF IsFrom(child) /\ ~r.err /\ ~r.isStageRef
           THEN <<[Node |-> i, Image |-> r.image,
                   LineStart |-> child.StartLine, LineEnd |-> child.EndLine]>>
           ELSE << >>)
          \o ClassifyInterleaved(children, i + 1)

ClassifyFroms_SinglePass(children, stages) == ClassifyInterleaved(children, 1)

ClassifyFroms(children, stages) == ClassifyFrom(children, stages, 1)

\* the pass given up at the first FROM node that parseFromCommand rejects
ExtractResult_AbortOnError(children, stages) ==
  IF \E i \in 1..Len(children) :
       IsFrom(children[i]) /\ ParseFromCommand(children[i], stages).err
  THEN [cmds |-> << >>, err |-> TRUE]
  ELSE [cmds |-> ClassifyFroms(children, stages), err |-> FALSE]

\* what extractFromCommands returns after both passes: the commands and a
\* nil error, a rejected node being logged and passed over
ExtractResult(children, stages) ==
  [cmds |-> ClassifyFroms(children, stages), err |-> FALSE]

\* ------------------------------------------------------ digest resolution
\* the digest the registry publishes, as descriptor.Digest.String() gives it
FetchedDigest == Sha256 \o <<"d">>

\* fetchImageDigest: the reference handed to the registry client
FullRef(imageRef) ==
  IF imageRef.Registry = DockerIo
  THEN imageRef.Repository \o <<":">> \o imageRef.Tag
  ELSE imageRef.Registry \o <<"/">> \o imageRef.Repository \o <<":">> \o imageRef.Tag

\* a deadline per fetch: a fetch after an expired one may succeed
FetchOutcomes_PerFetchDeadline(deadlinePassed) == {"ok", "error", "deadline"}

\* what fetchImageDigest can return under the context of the loop: a
\* digest, an error, or the deadline error while the fetch is in flight;
\* only an error once the deadline has passed
FetchOutcomes(deadlinePassed) ==
  IF deadlinePassed THEN {"error"} ELSE {"ok", "error", "deadline"}

\* the digest of the source kept when there is one
UpdateStep_KeepSourceDigest(cmds, i, ok) ==
  [cmds |-> IF ok /\ cmds[i].Image.Digest = Empty
            THEN [cmds EXCEPT ![i].Image.Digest = FetchedDigest] ELSE cmds,
   idx |-> i + 1,
   failed |-> FALSE]

\* the iteration returning the fetch error instead of going on
UpdateStep_AbortOnError(cmds, i, ok) ==
  [cmds |-> IF ok THEN [cmds EXCEPT ![i].Image.Digest = FetchedDigest] ELSE cmds,
   idx |-> i + 1,
   failed |-> ~ok]

\* one iteration of the loop of updateFromCommandsWithDigests on command i;
\* ok says whether fetchImageDigest returned a digest
UpdateStep(cmds, i, ok) ==
  [cmds |-> IF ok THEN [cmds EXCEPT ![i].Image.Digest = FetchedDigest] ELSE cmds,
   idx |-> i + 1,
   failed |-> FALSE]

\* --------------------------------------------------------- reconstruction
\* the reference written in place of Original
NewImageRef(image) ==
  IF image.Registry = DockerIo
  THEN image.Repository \o <<"@">> \o image.Digest
  ELSE image.Registry \o <<"/">> \o image.Repository \o <<"@">> \o image.Digest

\* updateMap: the last command with a digest that starts on line lineNum, 0 if none
UpdateMap(cmds, lineNum) ==
  LET hits == {k \in 1..Len(cmds) : cmds[k].Image.Digest # Empty /\ cmds[k].LineStart = lineNum}
  IN IF hits = {} THEN 0 ELSE CHOOSE k \in hits : \A m \in hits : k >= m

\* the line that replaces line lineNum
UpdatedLine(line, cmd) == ReplaceFirst(line, cmd.Image.Original, NewImageRef(cmd.Image))

\* newLines of reconstructAndWriteContainerfile
Reconstruct(originalLines, cmds) ==
  [i \in 1..Len(originalLines) |->
     LET k == UpdateMap(cmds, i)
     IN IF k # 0 THEN UpdatedLine(originalLines[i], cmds[k]) ELSE originalLines[i]]

\* ------------------------------------------------------------ input files
Sp(a, b) == a \o <<" ">> \o b

WFROM == <<"F", "R", "O", "M">>
WAS == <<"A", "S">>
DigestRef == <<"a">> \o AtSha256 \o <<"f">>

\* the lines input files are made of
LinePool ==
  { <<"#", " ", "c">>,                                            \* # c
    Sp(Sp(Sp(WFROM, <<"a", ":", "1">>), WAS), <<"b">>),           \* FROM a:1 AS b
    Sp(WFROM, <<"B">>),                                           \* FROM B
    Sp(Sp(Sp(WFROM, <<"S", "c", "r", "a", "t", "c", "h">>), WAS), <<"c">>),  \* FROM Scratch AS c
    Sp(WFROM, DigestRef),                                         \* FROM a@sha256:f
    Sp(Sp(WFROM, <<"-", "-", "p", "=", "a">>), <<"a">>),          \* FROM --p=a a
    Sp(Sp(Sp(KwFrom, <<"r", ".", "i", "o", "/", "u", ":", "1">>), KwAs), <<"B">>),  \* from r.io/u:1 as B
    WFROM,                                                        \* FROM
    Sp(WFROM, <<Backslash>>),                                     \* FROM \
    <<"u", "/", "a">>,                                            \* u/a
    Sp(Sp(Sp(WFROM, <<"x">>), WAS), <<"x">>),                     \* FROM x AS x
    Sp(WFROM, <<"a", "@">> \o AtSha256 \o <<"f">>) }              \* FROM a@@sha256:f

\* the files of at most n lines
RECURSIVE Files(_)
Files(n) ==
  IF n = 0 THEN {<< >>}
  ELSE LET shorter == Files(n - 1)
       IN shorter \cup {Append(f, l) : f \in {g \in shorter : Len(g) = n - 1}, l \in LinePool}

\* ------------------------------------------------------------------ state
VARIABLES
  pc,            \* position of the run in main / UpdateContainerfileWithLatestDigests
  hasArg,        \* len(os.Args) >= 2
  exists,        \* the path names a file
  inputLines,    \* the lines of the file when the run starts
  file,          \* the lines of the file at containerfilePath
  backup,        \* the lines of <path>.backup, NoFile while there is none
  ast,           \* result.AST.Children
  buildStages,   \* du.buildStages
  fromCommands,  \* the extracted commands, digests filled in by resolution
  idx,           \* position of the loop of updateFromCommandsWithDigests
  expired,       \* the deadline of the resolution context has passed
  fetchLog,      \* the calls of fetchImageDigest so far: command, reference, outcome
  newLines,      \* the lines handed to writeContainerfile
  exitCode,      \* exit status of the process, NoExit while it runs
  runErr,        \* what ended the run: the usage exit, the fatal log of main, NoErr
  copyFailed,    \* copyFile to <path>.backup returned an error
  ref,           \* argument of a call of parseImageReference on its own
  res            \* its result, NotParsed before the call

vars == <<pc, hasArg, exists, inputLines, file, backup, ast, buildStages, fromCommands,
          idx, expired, fetchLog, newLines, exitCode, runErr, copyFailed, ref, res>>

\* content of a file that does not exist, told apart from every file of lines
NoFile == << <<"<none>">> >>
NoExit == -1
NotParsed == [err |-> TRUE, Registry |-> <<"?">>, Repository |-> Empty, Tag |-> Empty,
              Digest |-> Empty, Original |-> Empty]

\* what ends a run: nothing, the usage exit and the fatal logs of main, the
\* latter with the error UpdateContainerfileWithLatestDigests returned
NoErr == "nil"
UsageErr == "Usage: <containerfile-path>"
NotFoundErr == "Containerfile not found"
ParseErr == "failed to parse Containerfile"
ExtractErr == "failed to extract FROM commands"
UpdateErr == "failed to update FROM commands with digests"
WriteErr == "failed to write updated Containerfile"

\* NewContainerfileUpdater and the process before main runs
Init ==
  /\ pc = "main"
  /\ hasArg \in BOOLEAN
  /\ exists \in BOOLEAN
  /\ inputLines \in Files(MaxLines)
  /\ (~hasArg \/ ~exists) => inputLines = << >>
  /\ file = inputLines
  /\ backup = NoFile
  /\ ast = << >>
  /\ buildStages = {}
  /\ fromCommands = << >>
  /\ idx = 1
  /\ expired = FALSE
  /\ fetchLog = << >>
  /\ newLines = << >>
  /\ exitCode = NoExit
  /\ runErr = NoErr
  /\ copyFailed = FALSE
  /\ ref = Empty
  /\ res = NotParsed

\* os.Exit(code) after the message e, or the return of main for code 0
Exit(code, e) == pc' = "exit" /\ exitCode' = code /\ runErr' = e

Running == exitCode' = exitCode /\ runErr' = runErr

\* the outcomes of an operation of the environment: success, and failure
\* for the files on which failures are explored
Outcomes == IF Len(inputLines) <= MaxFaultLines THEN BOOLEAN ELSE {TRUE}

\* main: usage check, os.Stat, then the updater is started
Main ==
  /\ pc = "main"
  /\ IF ~hasArg THEN Exit(1, UsageErr)
     ELSE IF ~exists THEN Exit(1, NotFoundErr)
     ELSE pc' = "parse" /\ Running
  /\ UNCHANGED <<hasArg, exists, inputLines, file, backup, ast, buildStages, fromCommands,
                 idx, expired, fetchLog, newLines, copyFailed, ref, res>>

\* step 1, parseContainerfile; openOk says whether os.Open succeeded
ParseStep ==
  /\ pc = "parse"
  /\ \E openOk \in Outcomes :
       LET result == ParseContainerfile(file)
       IN IF ~openOk \/ result.err
          THEN Exit(1, ParseErr) /\ ast' = ast
          ELSE pc' = "collect" /\ ast' = result.Children /\ Running
  /\ UNCHANGED <<hasArg, exists, inputLines, file, backup, buildStages, fromCommands,
                 idx, expired, fetchLog, newLines, copyFailed, ref, res>>

\* step 2, extractFromCommands: the first pass
CollectStep ==
  /\ pc = "collect"
  /\ buildStages' = CollectStages(ast, buildStages)
  /\ pc' = "classify"
  /\ UNCHANGED <<hasArg, exists, inputLines, file, backup, ast, fromCommands,
                 idx, expired, fetchLog, newLines, exitCode, runErr, copyFailed, ref, res>>

\* step 2, extractFromCommands: the second pass, and the return of
\* UpdateContainerfileWithLatestDigests when no command was found
ClassifyStep ==
  /\ pc = "classify"
  /\ LET r == ExtractResult(ast, buildStages)
     IN /\ fromCommands' = r.cmds
        /\ IF r.err THEN Exit(1, ExtractErr)
           ELSE IF Len(r.cmds) = 0 THEN Exit(0, NoErr)
           ELSE pc' = "resolve" /\ Running
  /\ idx' = 1
  /\ UNCHANGED <<hasArg, exists, inputLines, file, backup, ast, buildStages,
                 expired, fetchLog, newLines, copyFailed, ref, res>>

\* step 3, one iteration of the loop of updateFromCommandsWithDigests.
\* The fetch returns a digest, fails, or fails because the deadline of the
\* context (30 s for the whole loop) passes while it is in flight; after
\* the deadline every fetch fails.
FetchStep ==
  /\ pc = "resolve"
  /\ idx <= Len(fromCommands)
  /\ \E outcome \in FetchOutcomes(expired) :
       /\ outcome = "deadline" => FALSE \in Outcomes
       /\ expired' = (expired \/ outcome = "deadline")
       /\ LET r == UpdateStep(fromCommands, idx, outcome = "ok")
          IN /\ fromCommands' = r.cmds
             /\ idx' = r.idx
             /\ fetchLog' = Append(fetchLog, [cmd |-> idx, ok |-> outcome = "ok",
                                            fullRef |-> FullRef(fromCommands[idx].Image)])
             /\ IF r.failed THEN Exit(1, UpdateErr) ELSE pc' = pc /\ Running
  /\ UNCHANGED <<hasArg, exists, inputLines, file, backup, ast, buildStages, newLines,
                 copyFailed, ref, res>>

\* step 4, reconstructAndWriteContainerfile up to the call of
\* writeContainerfile; openOk says whether the file could be read again
ReconstructStep ==
  /\ pc = "resolve"
  /\ idx > Len(fromCommands)
  /\ \E openOk \in Outcomes :
       IF openOk
       THEN pc' = "backup" /\ newLines' = Reconstruct(file, fromCommands) /\ Running
       ELSE Exit(1, WriteErr) /\ newLines' = newLines
  /\ UNCHANGED <<hasArg, exists, inputLines, file, backup, ast, buildStages, fromCommands,
                 idx, expired, fetchLog, copyFailed, ref, res>>

\* the copy held back until the lines are written: the backup gets the new content
BackupStep_AfterWrite ==
  /\ pc = "backup"
  /\ \E copyOk \in Outcomes :
       /\ copyFailed' = ~copyOk
       /\ IF copyOk THEN backup' = newLines ELSE backup' \in {backup, << >>}
  /\ pc' = "write"
  /\ UNCHANGED <<hasArg, exists, inputLines, file, ast, buildStages, fromCommands,
                 idx, expired, fetchLog, newLines, exitCode, runErr, ref, res>>

\* the error of the copy returned instead of logged
BackupStep_FatalCopy ==
  /\ pc = "backup"
  /\ \E copyOk \in Outcomes :
       /\ copyFailed' = ~copyOk
       /\ IF copyOk
          THEN backup' = file /\ pc' = "write" /\ Running
          ELSE backup' \in {backup, << >>} /\ Exit(1, WriteErr)
  /\ UNCHANGED <<hasArg, exists, inputLines, file, ast, buildStages, fromCommands,
                 idx, expired, fetchLog, newLines, ref, res>>

\* writeContainerfile: copyFile to <path>.backup; a failed copy leaves no
\* backup file or an incomplete one and is only logged
BackupStep ==
  /\ pc = "backup"
  /\ \E copyOk \in Outcomes :
       /\ copyFailed' = ~copyOk
       /\ IF copyOk THEN backup' = file ELSE backup' \in {backup, << >>}
  /\ pc' = "write"
  /\ UNCHANGED <<hasArg, exists, inputLines, file, ast, buildStages, fromCommands,
                 idx, expired, fetchLog, newLines, exitCode, runErr, ref, res>>

\* writeContainerfile: os.Create and the buffered write of the lines; a
\* failed Create leaves the file, a failed write leaves a prefix of the lines
WriteStep ==
  /\ pc = "write"
  /\ \/ file' = newLines /\ Exit(0, NoErr)
     \/ FALSE \in Outcomes /\ file' = file /\ Exit(1, WriteErr)
     \/ /\ FALSE \in Outcomes
        /\ \E n \in 0..(Len(newLines) - 1) : file' = SubSeq(newLines, 1, n) /\ Exit(1, WriteErr)
  /\ UNCHANGED <<hasArg, exists, inputLines, backup, ast, buildStages, fromCommands,
                 idx, expired, fetchLog, newLines, copyFailed, ref, res>>

Next ==
  \/ Main
  \/ ParseStep
  \/ CollectStep
  \/ ClassifyStep
  \/ FetchStep
  \/ ReconstructStep
  \/ BackupStep
  \/ WriteStep

Spec == Init /\ [][Next]_vars

\* ------------------------------------- parseImageReference on its own
\* characters of the free-form part of a reference text
RefAlphabet == {"a", ".", ":", "/", "@", "5"}

\* the texts of at most n characters
RECURSIVE Texts(_)
Texts(n) ==
  IF n = 0 THEN {<< >>}
  ELSE LET shorter == Texts(n - 1)
       IN shorter \cup {Append(t, c) : t \in {u \in shorter : Len(u) = n - 1}, c \in RefAlphabet}

RefHeads == {Empty, Localhost, DockerIo, <<"a", ":", "5">>, <<"a", ".", "a", ":", "5">>}
RefDigests == {Empty, AtSha256 \o <<"f">>}

\* the reference texts parseImageReference is called with
RefInputs == {h \o t \o d : h \in RefHeads, t \in Texts(MaxLen), d \in RefDigests}

InitParse ==
  /\ pc = "call"
  /\ hasArg = FALSE
  /\ exists = FALSE
  /\ inputLines = << >>
  /\ file = << >>
  /\ backup = NoFile
  /\ ast = << >>
  /\ buildStages = {}
  /\ fromCommands = << >>
  /\ idx = 1
  /\ expired = FALSE
  /\ fetchLog = << >>
  /\ newLines = << >>
  /\ exitCode = NoExit
  /\ runErr = NoErr
  /\ copyFailed = FALSE
  /\ ref \in RefInputs
  /\ res = NotParsed

\* a call of parseImageReference
ParseCall ==
  /\ pc = "call"
  /\ res' = ParseImageReference(ref)
  /\ pc' = "return"
  /\ UNCHANGED <<hasArg, exists, inputLines, file, backup, ast, buildStages, fromCommands,
                 idx, expired, fetchLog, newLines, exitCode, runErr, copyFailed, ref>>

NextParse == ParseCall

SpecParse == InitParse /\ [][NextParse]_vars

\* ---------------------------------------- claims on parseImageReference
Returned == pc = "return"

\* position of the first occurrence of the character c in s, 0 if none
FirstChar(s, c) == Index(s, <<c>>)

IsPrefix(a, b) == Len(a) <= Len(b) /\ SubSeq(b, 1, Len(a)) = a

AllIn(s, S) == \A i \in 1..Len(s) : s[i] \in S

\* the text before the first slash and the text after it
LeadingSegment(s) == Slice(s, 1, FirstChar(s, "/") - 1)
AfterSlash(s) == Slice(s, FirstChar(s, "/") + 1, Len(s))

\* the words of the claim: contains ".", contains ":" or equals localhost
LooksLikeRegistry(seg) ==
  \/ \E i \in 1..Len(seg) : seg[i] \in {".", ":"}
  \/ seg = Localhost

\* seg is host or host:port, host a non-empty run of letters, digits, dots
\* and dashes, port a non-empty run of digits
HostPortShape(seg) ==
  LET c == FirstChar(seg, ":")
      host == IF c = 0 THEN seg ELSE Slice(seg, 1, c - 1)
      port == Slice(seg, c + 1, Len(seg))
  IN /\ host # Empty
     /\ AllIn(host, HostClass)
     /\ c # 0 => (port # Empty /\ AllIn(port, Digits))

\* C6 as stated: for every digest-free reference with a slash, the leading
\* segment is the Registry if and only if it contains ".", contains ":" or
\* equals localhost; otherwise Registry is docker.io and the segment stays
\* the leading part of Repository.
C6_RegistryIffSegmentLooksLikeOne ==
  (Returned /\ ~Contains(ref, AtSha256) /\ Contains(ref, <<"/">>)) =>
    LET seg == LeadingSegment(ref)
    IN /\ ~res.err
       /\ (res.Registry = seg) <=> LooksLikeRegistry(seg)
       /\ ~LooksLikeRegistry(seg) =>
            (res.Registry = DockerIo /\ IsPrefix(seg \o <<"/">>, res.Repository))

\* C6 amended: the equivalence holds for the references of the shape
\* host[:port]/rest with a non-empty rest; every other digest-free
\* reference with a slash gets Registry docker.io.
C6_RegistryIffHostShapedSegmentLooksLikeOne ==
  (Returned /\ ~Contains(ref, AtSha256) /\ Contains(ref, <<"/">>)) =>
    LET seg == LeadingSegment(ref)
    IN /\ ~res.err
       /\ IF HostPortShape(seg) /\ AfterSlash(ref) # Empty
          THEN /\ (res.Registry = seg) <=> LooksLikeRegistry(seg)
               /\ ~LooksLikeRegistry(seg) =>
                    (res.Registry = DockerIo /\ IsPrefix(seg \o <<"/">>, res.Repository))
          ELSE res.Registry = DockerIo

\* a reference localhost/... was parsed, and one user/... too
C6_Witness ==
  /\ Returned
  /\ ~Contains(ref, AtSha256)
  /\ LeadingSegment(ref) = Localhost
  /\ FirstChar(ref, "/") # 0
  /\ res.Registry = Localhost
  /\ res.Repository = <<"a">>

\* C7: a bare name n without slash and colon parses to docker.io,
\* library/n, latest, no digest, Original n.
C7_BareNameIsLibraryLatest ==
  (Returned /\ ~Contains(ref, <<"/">>) /\ ~Contains(ref, <<":">>)) =>
    res = ImageReference(DockerIo, LibraryPrefix \o ref, Latest, Empty, ref)

C7_Witness ==
  /\ Returned
  /\ ref = <<"a", ".", "a">>
  /\ res.Repository = LibraryPrefix \o <<"a", ".", "a">>
  /\ res.Tag = Latest

\* the hexadecimal digits of the model's alphabet
HexChars == Digits \cup {"a", "b", "c", "d", "e", "f"}

\* position of the "@sha256:" that is followed by hex digits up to the end, 0 if none
DigestSuffixAt(s) ==
  LET hits == {i \in 1..Len(s) : /\ MatchAt(s, AtSha256, i)
                                 /\ i + Len(AtSha256) <= Len(s)
                                 /\ AllIn(Slice(s, i + Len(AtSha256), Len(s)), HexChars)}
  IN IF hits = {} THEN 0 ELSE CHOOSE i \in hits : TRUE

\* the statement of C8 for the reference s = base + @sha256:hex and result r
DigestParsedAs(s, r) ==
  LET at == DigestSuffixAt(s)
      base == Slice(s, 1, at - 1)
      b == ParseImageReference(base)
      again == ParseImageReference(NewImageRef(r))
  IN /\ ~r.err
     /\ r.Digest = Slice(s, at + 1, Len(s))
     /\ ~b.err
     /\ r.Registry = b.Registry /\ r.Repository = b.Repository /\ r.Tag = b.Tag
     /\ r.Original = s
     /\ ~again.err
     /\ again.Digest = r.Digest

\* C8 as stated: every base + @sha256:<hex> parses to the digest suffix,
\* the fields of the base and Original the input, and the rewritten form
\* parses to the same digest.
C8_DigestReferenceParses ==
  (Returned /\ DigestSuffixAt(ref) # 0) => DigestParsedAs(ref, res)

\* C8 amended: the same for every base that holds no "@"; with an "@" in
\* the base the parse fails.
C8_DigestReferenceParsesWithoutAtInBase ==
  (Returned /\ DigestSuffixAt(ref) # 0) =>
    IF Contains(Slice(ref, 1, DigestSuffixAt(ref) - 1), <<"@">>)
    THEN res.err
    ELSE DigestParsedAs(ref, res)

\* a port-qualified, tagged base with a digest was parsed
C8_Witness ==
  /\ Returned
  /\ ref = <<"a", ":", "5", "/", "a", ":", "5">> \o AtSha256 \o <<"f">>
  /\ res.Digest = Sha256 \o <<"f">>
  /\ res.Registry = <<"a", ":", "5">>
  /\ res.Tag = <<"5">>

\* C9: after a parse without error, Registry, Repository and Tag are non-empty.
C9_FieldsNonEmpty ==
  (Returned /\ ~res.err) =>
    (res.Registry # Empty /\ res.Repository # Empty /\ res.Tag # Empty)

\* the reference s is host:port/rest with a numeric port and a non-empty rest
PortQualified(s) ==
  LET c == FirstChar(s, ":")
      sl == FirstChar(s, "/")
  IN /\ c > 1
     /\ sl > c + 1
     /\ sl < Len(s)
     /\ AllIn(Slice(s, 1, c - 1), HostClass)
     /\ AllIn(Slice(s, c + 1, sl - 1), Digits)

\* C10: host:port/path without another colon gives Registry host:port,
\* Repository path and Tag latest; with a tag after the path, Repository
\* and Tag are the two sides of the last colon of the text after the slash.
C10_PortIsNotATag ==
  (Returned /\ PortQualified(ref) /\ ~Contains(ref, AtSha256)) =>
    LET rest == AfterSlash(ref)
        lastColon == LastIndex(rest, <<":">>)
    IN /\ ~res.err
       /\ res.Registry = LeadingSegment(ref)
       /\ IF lastColon = 0
          THEN res.Repository = rest /\ res.Tag = Latest
          ELSE /\ res.Repository = Slice(rest, 1, lastColon - 1)
               /\ res.Tag = Slice(rest, lastColon + 1, Len(rest))

\* a:5/a was parsed: the port stayed in the registry, the tag is latest
C10_Witness ==
  /\ Returned
  /\ ref = <<"a", ":", "5", "/", "a">>
  /\ res.Registry = <<"a", ":", "5">>
  /\ res.Repository = <<"a">>
  /\ res.Tag = Latest

\* ------------------------------------------------------ claims on the run
\* newLines has been computed and the file still holds the input
Reconstructed == pc \in {"backup", "write"}

\* extractFromCommands has just returned: no fetch yet, or the return of the
\* run that found no command
Extracted ==
  \/ pc = "resolve" /\ fetchLog = << >>
  \/ pc = "exit" /\ exitCode = 0 /\ fromCommands = << >>

\* position in the physical line of the first word after the instruction
\* word and its flags, 0 if the line holds none
ImageArgPos(line) ==
  LET text == StripContinuation(line)
      starts == SortedSeq(WordStarts(text))
      nflags == FlagCount(Tail([k \in 1..Len(starts) |-> WordAt(text, starts[k])]))
  IN IF Len(starts) >= nflags + 2 THEN starts[nflags + 2] ELSE 0

\* the commands with a digest that start on line i
ResolvedOn(i) ==
  {k \in 1..Len(fromCommands) :
     fromCommands[k].LineStart = i /\ fromCommands[k].Image.Digest # Empty}

\* line i with the image argument, and nothing else, replaced
ArgumentReplaced(line, cmd) ==
  LET p == ImageArgPos(line)
  IN IF p = 0 \/ ~MatchAt(line, cmd.Image.Original, p) THEN line
     ELSE Slice(line, 1, p - 1) \o NewImageRef(cmd.Image)
          \o Slice(line, p + Len(cmd.Image.Original), Len(line))

\* C1: every output line equals the input line, except that on the line of
\* a command with a digest the image argument of the FROM instruction is
\* replaced by the new reference; keyword, flags, AS clause and all other
\* lines are as in the input.
C1_OnlyImageArgumentChanges ==
  Reconstructed =>
    /\ Len(newLines) = Len(inputLines)
    /\ \A i \in 1..Len(inputLines) :
         IF ResolvedOn(i) = {} THEN newLines[i] = inputLines[i]
         ELSE \A k \in ResolvedOn(i) :
                newLines[i] = ArgumentReplaced(inputLines[i], fromCommands[k])

\* the fetch for command k failed
FetchFailed(k) == \E n \in 1..Len(fetchLog) : fetchLog[n].cmd = k /\ ~fetchLog[n].ok

\* C2: the lines of a command whose digest fetch failed are emitted as
\* they are in the input, whatever the form of the reference.
C2_FailedFetchLeavesLine ==
  Reconstructed =>
    \A k \in 1..Len(fromCommands) :
      FetchFailed(k) =>
        \A i \in fromCommands[k].LineStart..fromCommands[k].LineEnd :
          newLines[i] = inputLines[i]

\* C3: the fetch attempts are those for the commands 1, 2, ... in this
\* order, one each; the run leaves the resolution loop only when every
\* command has had its attempt, and it leaves it into reconstruction,
\* never with an error of updateFromCommandsWithDigests.
C3_OneFetchPerReferenceInOrder ==
  /\ [](/\ Len(fetchLog) <= Len(fromCommands)
        /\ \A n \in 1..Len(fetchLog) : fetchLog[n].cmd = n
        /\ pc = "resolve" => idx = Len(fetchLog) + 1
        /\ Reconstructed => Len(fetchLog) = Len(fromCommands))
  /\ [][(pc = "resolve" /\ pc' # "resolve") =>
          /\ Len(fetchLog) = Len(fromCommands)
          /\ fetchLog' = fetchLog
          /\ idx > Len(fromCommands)]_vars

\* a failed fetch was followed by the attempt for the next command, and
\* the run went on to reconstruction
C3_Witness ==
  /\ Reconstructed
  /\ Len(fetchLog) >= 2
  /\ ~fetchLog[1].ok
  /\ fetchLog[2].ok
  /\ fromCommands[2].Image.Digest = FetchedDigest

\* the alias a FROM node declares: the word that follows the first AS
\* (in any letter case) after the image argument
DeclaredAlias(node) ==
  {ToLower(node.Args[j + 1]) :
     j \in {m \in 2..(Len(node.Args) - 1) :
              /\ ToLower(node.Args[m]) = KwAs
              /\ \A n \in 2..(m - 1) : ToLower(node.Args[n]) # KwAs}}

FromNodes == {i \in 1..Len(ast) : ToLower(ast[i].Value) = KwFrom}

DeclaredAliases == UNION {DeclaredAlias(ast[i]) : i \in FromNodes}

\* the FROM nodes whose first argument names a declared alias or scratch
StageNodes ==
  {i \in FromNodes : /\ Len(ast[i].Args) >= 1
                     /\ ToLower(ast[i].Args[1]) \in DeclaredAliases \cup {Scratch}}

AllParsable ==
  \A i \in FromNodes :
    Len(ast[i].Args) >= 1 /\ ~ParseImageReference(ast[i].Args[1]).err

\* C4: when every FROM line has a parsable first argument, the extracted
\* commands are the FROM nodes that name neither a declared alias nor
\* scratch, one command per node, in source order, with the node's first
\* argument as Original and the node's line span.
C4_ExtractsNonStageFromsInOrder ==
  (Extracted /\ AllParsable) =>
    LET images == SortedSeq(FromNodes \ StageNodes)
    IN /\ Len(fromCommands) = Cardinality(FromNodes) - Cardinality(StageNodes)
       /\ Len(fromCommands) = Len(images)
       /\ \A k \in 1..Len(images) :
            /\ fromCommands[k].Node = images[k]
            /\ fromCommands[k].Image.Original = ast[images[k]].Args[1]
            /\ fromCommands[k].LineStart = ast[images[k]].StartLine
            /\ fromCommands[k].LineEnd = ast[images[k]].EndLine

\* two images were extracted around a skipped stage reference
C4_Witness ==
  /\ Extracted /\ AllParsable
  /\ Len(fromCommands) = 2
  /\ Cardinality(StageNodes) >= 1
  /\ \E i \in StageNodes : fromCommands[1].Node < i /\ i < fromCommands[2].Node

\* C5: no node is classified before the first pass is over; after the
\* first pass the alias set is exactly the lowercased aliases of the FROM
\* nodes with an AS clause; a FROM node whose first argument is one of
\* them in any letter case is not extracted, wherever the alias is declared.
C5_AliasesCompleteBeforeClassification ==
  /\ pc \in {"main", "parse", "collect", "classify"} => fromCommands = << >>
  /\ pc \in {"main", "parse", "collect"} => buildStages = {}
  /\ (pc = "classify" \/ Extracted) => buildStages = DeclaredAliases
  /\ Extracted =>
       \A i \in FromNodes :
         (Len(ast[i].Args) >= 1 /\ ToLower(ast[i].Args[1]) \in DeclaredAliases) =>
           \A k \in 1..Len(fromCommands) : fromCommands[k].Node # i

\* a node that names, in another letter case, an alias declared further
\* down was skipped
C5_Witness ==
  /\ Extracted
  /\ \E i \in FromNodes : \E j \in FromNodes :
       /\ i < j
       /\ Len(ast[i].Args) >= 1
       /\ ToLower(ast[i].Args[1]) \in DeclaredAlias(ast[j])
       /\ ast[i].Args[1] \notin DeclaredAlias(ast[j])
       /\ \A k \in 1..Len(fromCommands) : fromCommands[k].Node # i
       /\ \E k \in 1..Len(fromCommands) : fromCommands[k].Node = j

\* the fetch for command k returned a digest
FetchSucceeded(k) == \E n \in 1..Len(fetchLog) : fetchLog[n].cmd = k /\ fetchLog[n].ok

\* the forms the claims name: Repository@d for docker.io, Registry/Repository@d otherwise
RewrittenForm(image, d) ==
  IF image.Registry = DockerIo
  THEN image.Repository \o <<"@">> \o d
  ELSE image.Registry \o <<"/">> \o image.Repository \o <<"@">> \o d

\* C11: on the line of a command whose fetch returned the digest d, the
\* image argument is the reference of the command and is rewritten to
\* Repository@d for docker.io and to Registry/Repository@d otherwise, the
\* rest of the line being kept.
C11_ResolvedReferenceRewritten ==
  Reconstructed =>
    \A k \in 1..Len(fromCommands) :
      FetchSucceeded(k) =>
        LET cmd == fromCommands[k]
            line == inputLines[cmd.LineStart]
            p == ImageArgPos(line)
        IN /\ p # 0
           /\ MatchAt(line, cmd.Image.Original, p)
           /\ newLines[cmd.LineStart] =
                Slice(line, 1, p - 1) \o RewrittenForm(cmd.Image, FetchedDigest)
                \o Slice(line, p + Len(cmd.Image.Original), Len(line))

\* the digest the source text of command k carried, empty if none
SourceDigest(k) == ParseImageReference(fromCommands[k].Image.Original).Digest

\* C12: every command whose fetch succeeded has the fetched digest as its
\* Digest, and not the digest of the source, from the fetch on.
C12_SuccessfulFetchOverwritesDigest ==
  \A n \in 1..Len(fetchLog) :
    fetchLog[n].ok =>
      /\ fromCommands[fetchLog[n].cmd].Image.Digest = FetchedDigest
      /\ fromCommands[fetchLog[n].cmd].Image.Digest # SourceDigest(fetchLog[n].cmd)

\* the fetch for a reference written with a digest succeeded, and the
\* resolution is over
C12_Witness ==
  /\ Reconstructed
  /\ \E k \in 1..Len(fromCommands) :
       /\ FetchSucceeded(k)
       /\ SourceDigest(k) = Sha256 \o <<"f">>
       /\ fromCommands[k].Image.Digest = FetchedDigest

\* the loop of updateFromCommandsWithDigests is over
Resolved == (pc = "resolve" /\ idx > Len(fromCommands)) \/ Reconstructed

\* C13: after the resolution every command whose fetch failed has an
\* empty Digest, whatever its source text carried.
C13_FailedFetchHasEmptyDigest ==
  Resolved =>
    \A k \in 1..Len(fromCommands) :
      FetchFailed(k) => fromCommands[k].Image.Digest = Empty

\* the FROM nodes whose first argument is scratch in any letter case
ScratchNodes ==
  {i \in FromNodes : Len(ast[i].Args) >= 1 /\ ToLower(ast[i].Args[1]) = Scratch}

\* the lines of the input that read FROM scratch ..., in any letter case
ScratchLines ==
  {l \in 1..Len(inputLines) :
     LET words == Words(inputLines[l])
     IN Len(words) >= 2 /\ ToLower(words[1]) = KwFrom /\ ToLower(words[2]) = Scratch}

\* C14: a FROM node whose first argument is scratch in any letter case is
\* never extracted, so no fetch is made for it and no command starts on
\* its lines; its lines, and every line that reads FROM scratch, are the
\* lines of the input in the new line sequence when it has been computed
\* and in the file when the run has ended.
C14_ScratchNeverResolvedNorRewritten ==
  /\ (pc \in {"resolve", "backup"} /\ fromCommands # << >>) =>
       \A i \in ScratchNodes :
         /\ \A k \in 1..Len(fromCommands) :
              /\ fromCommands[k].Node # i
              /\ fromCommands[k].LineStart \notin ast[i].StartLine..ast[i].EndLine
         /\ \A n \in 1..Len(fetchLog) : fromCommands[fetchLog[n].cmd].Node # i
  /\ (pc \in {"backup", "exit"} /\ newLines # << >>) =>
       \A l \in ScratchLines \cup UNION {ast[i].StartLine..ast[i].EndLine : i \in ScratchNodes} :
         /\ newLines[l] = inputLines[l]
         /\ l <= Len(file) => file[l] = inputLines[l]

\* a run rewrote the file around a scratch line written with a capital
C14_Witness ==
  /\ pc = "exit" /\ exitCode = 0
  /\ ScratchNodes # {}
  /\ \E i \in ScratchNodes : ast[i].Args[1] # Scratch
  /\ \E n \in 1..Len(fetchLog) : fetchLog[n].ok
  /\ file # inputLines
  /\ Len(file) = Len(inputLines)

\* the input holds no instruction: it is empty or made of comments and blank lines
NoInstructions == \A l \in 1..Len(inputLines) : IsComment(inputLines[l]) \/ IsBlank(inputLines[l])

\* C15: a run that ends with the error "failed to parse Containerfile"
\* ends with status 1 before anything was extracted, fetched, backed up or
\* written: the file is the input and there is no backup; and a run on an
\* existing file without instructions gets no further than that error.
C15_ParseFailureAbortsBeforeAnyEffect ==
  /\ runErr = ParseErr =>
       /\ pc = "exit" /\ exitCode = 1
       /\ file = inputLines /\ backup = NoFile /\ ~copyFailed
       /\ ast = << >> /\ buildStages = {} /\ fromCommands = << >>
       /\ fetchLog = << >> /\ newLines = << >>
  /\ (NoInstructions /\ pc \notin {"main", "parse"}) =>
       /\ pc = "exit" /\ exitCode = 1
       /\ runErr \in {UsageErr, NotFoundErr, ParseErr}
       /\ (hasArg /\ exists) => runErr = ParseErr

\* a file of two comment lines was refused
C15_Witness ==
  /\ pc = "exit"
  /\ runErr = ParseErr
  /\ Len(inputLines) = 2
  /\ NoInstructions
  /\ file = inputLines
  /\ backup = NoFile

\* the FROM nodes parseFromCommand rejects: no argument, or an argument
\* that is neither an alias nor scratch and does not parse
RejectedNodes ==
  {i \in FromNodes \ StageNodes :
     Len(ast[i].Args) = 0 \/ ParseImageReference(ast[i].Args[1]).err}

\* C16: extractFromCommands returns no error for any node tree, and what
\* it returns are the FROM nodes that are neither rejected nor stage
\* references, one command each, in source order.
C16_RejectedNodesAreSkipped ==
  /\ runErr # ExtractErr
  /\ Extracted =>
       LET images == SortedSeq((FromNodes \ StageNodes) \ RejectedNodes)
       IN /\ Len(fromCommands) = Len(images)
          /\ \A k \in 1..Len(images) :
               /\ fromCommands[k].Node = images[k]
               /\ fromCommands[k].Image.Original = ast[images[k]].Args[1]
               /\ fromCommands[k].LineStart = ast[images[k]].StartLine
               /\ fromCommands[k].LineEnd = ast[images[k]].EndLine

\* a FROM without argument and a FROM with an unparsable reference were
\* passed over and the image after them was extracted
C16_Witness ==
  /\ Extracted
  /\ \E i \in RejectedNodes : \E j \in RejectedNodes :
       /\ Len(ast[i].Args) = 0
       /\ Len(ast[j].Args) >= 1
       /\ \E k \in 1..Len(fromCommands) :
            fromCommands[k].Node > i /\ fromCommands[k].Node > j

\* C17: the step after the reconstruction is the backup copy, taken while
\* the file still holds the input, and whatever its outcome the next step
\* is the write; a copy that succeeded holds the input; after a failed
\* copy a run that ends in success has replaced the file by the new lines.
C17_BackupBeforeWriteAndNotFatal ==
  /\ [][pc = "backup" =>
          /\ pc' = "write"
          /\ file' = file /\ file = inputLines
          /\ runErr' = NoErr
          /\ ~copyFailed' => backup' = inputLines]_vars
  /\ [](pc = "write" => (file = inputLines /\ (~copyFailed => backup = inputLines)))
  /\ []((pc = "exit" /\ exitCode = 0 /\ fromCommands # << >>) =>
          (file = newLines /\ (~copyFailed => backup = inputLines)))

\* the copy failed, and the write replaced the file and returned success
C17_Witness ==
  /\ pc = "exit" /\ exitCode = 0
  /\ copyFailed
  /\ backup = NoFile
  /\ file = newLines
  /\ file # inputLines

\* the run ended in success
Succeeded == pc = "exit" /\ exitCode = 0

\* C18 as stated: after every run that ends in success and in which the
\* backup copy did not fail, the file has been overwritten with the new
\* lines and the backup holds the input, the run without commands included.
C18_SuccessLeavesBackup ==
  (Succeeded /\ ~copyFailed) =>
    /\ backup # NoFile
    /\ backup = inputLines
    /\ file = newLines

\* C18 amended: after a run that ends in success with at least one
\* extracted command the file holds the new lines, as many as the input
\* had, and the backup, if its copy did not fail, holds the input; the run
\* without commands ends in success with the file untouched and no backup.
C18_SuccessWithCommandsLeavesBackup ==
  Succeeded =>
    IF fromCommands = << >>
    THEN file = inputLines /\ backup = NoFile /\ newLines = << >> /\ ~copyFailed
    ELSE /\ file = newLines
         /\ Len(file) = Len(inputLines)
         /\ ~copyFailed => backup = inputLines

\* a run rewrote a reference and left the input in the backup
C18_Witness ==
  /\ Succeeded
  /\ fromCommands # << >>
  /\ ~copyFailed
  /\ backup = inputLines
  /\ file = newLines
  /\ file # inputLines

\* C19: a run ends with status 0 or 1; the status is 1 exactly when the
\* argument is missing, the path does not exist, parsing failed or step 4
\* failed with "failed to write updated Containerfile", and 0 otherwise:
\* no fetch failure and no empty command list gives status 1.
C19_ExitStatus ==
  /\ pc # "exit" => (exitCode = NoExit /\ runErr = NoErr)
  /\ pc = "exit" =>
       /\ exitCode \in {0, 1}
       /\ exitCode = 1 <=> (~hasArg \/ ~exists \/ runErr = ParseErr \/ runErr = WriteErr)
       /\ exitCode = 0 <=> runErr = NoErr
       /\ (hasArg /\ exists /\ ast # << >> /\ fromCommands = << >>) => exitCode = 0

\* every fetch of a run with two commands failed and the run ended with status 0
C19_Witness ==
  /\ Succeeded
  /\ Len(fetchLog) = 2
  /\ \A n \in 1..Len(fetchLog) : ~fetchLog[n].ok
  /\ Len(fromCommands) = 2

\* the last call of fetchImageDigest failed
LastFetchFailed == fetchLog # << >> /\ ~fetchLog[Len(fetchLog)].ok

\* C20: the fetch in flight when the deadline passes fails and so does
\* every later fetch, each failure being followed by the next iteration
\* and never by an error of the run; the commands resolved before keep
\* the fetched digest; and the run goes on: after the deadline the loop
\* always has a next step, and it is left only with every command
\* attempted and into step 4, where the write is reached unless the file
\* cannot be read again.
C20_SharedDeadline ==
  /\ [][(~expired /\ expired') =>
          /\ Len(fetchLog') = Len(fetchLog) + 1
          /\ LastFetchFailed'
          /\ fromCommands' = fromCommands
          /\ pc' = "resolve" /\ idx' = idx + 1]_vars
  /\ [][expired =>
          /\ expired'
          /\ fetchLog' # fetchLog => (LastFetchFailed' /\ pc' = "resolve" /\ idx' = idx + 1)
          /\ fromCommands' = fromCommands
          /\ runErr' \in {NoErr, WriteErr}
          /\ (pc = "resolve" /\ pc' # "resolve") =>
               /\ Len(fetchLog) = Len(fromCommands)
               /\ pc' = "backup" \/ runErr' = WriteErr]_vars
  /\ [](expired =>
          /\ \A n \in 1..Len(fetchLog) :
               fetchLog[n].ok => fromCommands[fetchLog[n].cmd].Image.Digest = FetchedDigest
          /\ pc \in {"resolve", "backup", "write"} => ENABLED <<Next>>_vars)

\* the deadline passed during the second of two fetches: the first
\* command kept its digest and the write was reached
C20_Witness ==
  /\ expired
  /\ pc = "write"
  /\ Len(fetchLog) = 2
  /\ fetchLog[1].ok /\ ~fetchLog[2].ok
  /\ fromCommands[1].Image.Digest = FetchedDigest
  /\ fromCommands[2].Image.Digest = Empty

\* the repository name as the reference s writes it: s without its digest,
\* without a leading docker.io/ that is followed by a name, and without the
\* tag after its last colon
WrittenName(s) ==
  LET at == Index(s, AtSha256)
      base == IF at = 0 THEN s ELSE Slice(s, 1, at - 1)
      host == DockerIo \o <<"/">>
      body == IF IsPrefix(host, base) /\ Len(base) > Len(host)
              THEN Slice(base, Len(host) + 1, Len(base)) ELSE base
      colon == LastIndex(body, <<":">>)
  IN IF colon = 0 THEN body ELSE Slice(body, 1, colon - 1)

\* C21: after a parse without error that gives Registry docker.io, a
\* repository name written with a single component is the Repository
\* with library/ put before it, and the Repository holds a slash, also
\* for a reference that writes docker.io/ itself.
C21_DockerHubRepositoryHasLibrary ==
  (Returned /\ ~res.err /\ res.Registry = DockerIo) =>
    /\ Contains(res.Repository, <<"/">>)
    /\ ~Contains(WrittenName(ref), <<"/">>) =>
         res.Repository = LibraryPrefix \o WrittenName(ref)

\* the first argument of FROM node i is a genuine registry image: it
\* parses, is not scratch and is not, in any letter case, the alias that
\* another FROM node declares
GenuineImage(i) ==
  /\ Len(ast[i].Args) >= 1
  /\ ~ParseImageReference(ast[i].Args[1]).err
  /\ ToLower(ast[i].Args[1]) # Scratch
  /\ \A j \in FromNodes \ {i} : ToLower(ast[i].Args[1]) \notin DeclaredAlias(ast[j])

\* C22: every FROM node whose first argument is a genuine registry image
\* is among the commands extractFromCommands returns, also when the node
\* declares an alias spelled like its own image name.
C22_GenuineImagesAreExtracted ==
  Extracted =>
    \A i \in FromNodes :
      GenuineImage(i) => \E k \in 1..Len(fromCommands) : fromCommands[k].Node = i

\* the image argument, in the lines given, of the instruction that starts
\* on line lineNum; empty when no instruction with an argument starts there
ImageArgumentAt(lines, lineNum) ==
  LET nodes == ParseFrom(lines, 1)
      at == {n \in 1..Len(nodes) : nodes[n].StartLine = lineNum /\ Len(nodes[n].Args) >= 1}
  IN IF at = {} THEN Empty ELSE nodes[CHOOSE n \in at : TRUE].Args[1]

\* C23: after reconstruction the image argument of the instruction of
\* every command with a non-empty Digest reads Repository@Digest or
\* Registry/Repository@Digest in the new lines, on whatever line of the
\* instruction the reference stands.
C23_ResolvedCommandIsRewritten ==
  Reconstructed =>
    \A k \in 1..Len(fromCommands) :
      fromCommands[k].Image.Digest # Empty =>
        ImageArgumentAt(newLines, fromCommands[k].LineStart)
          = RewrittenForm(fromCommands[k].Image, fromCommands[k].Image.Digest)

\* the result of parsing the form that replaces the reference r once the
\* digest d has been fetched for it
Reparsed(r, d) == ParseImageReference(RewrittenForm(r, d))

\* C24: for every reference parsed without error and the fetched digest
\* d, the rewritten form parses without error to the same Registry and
\* Repository, to Digest d and to Tag latest, whatever the Tag was.
C24_RewrittenFormLosesTag ==
  (Returned /\ ~res.err) =>
    LET again == Reparsed(res, FetchedDigest)
    IN /\ ~again.err
       /\ again.Registry = res.Registry
       /\ again.Repository = res.Repository
       /\ again.Digest = FetchedDigest
       /\ again.Tag = Latest

====
